---------------------------- MODULE Spec2Model ----------------------------
(***************************************************************************)
(* humanhash (src/index.js): class HumanHasher.                            *)
(*                                                                         *)
(* The model follows one call at a time through the code: the constructor, *)
(* humanize, uuid and _compress, the last one statement by statement (its  *)
(* guard, its segment-building loop, the left-over concat, the XOR fold).  *)
(* Strings that the code takes apart (hex digests, uuids) are sequences of *)
(* one-character strings; a phrase is the sequence of pieces that join     *)
(* concatenates (word, separator, word, ...).                              *)
(***************************************************************************)
EXTENDS Integers, Sequences, FiniteSets, TLC

(***************************************************************************)
(* Bounds of the model.                                                    *)
(***************************************************************************)
\* longest byte list handed to _compress directly
MaxLen == 5
\* longest hex digest handed to humanize, in characters
MaxDigestLen == 4
\* largest explicit `words` argument of humanize and uuid
MaxWords == 2
\* largest `target` of a direct _compress call is MaxLen + MaxTargetOver
MaxTargetOver == 1
\* most negative `target` of a direct _compress call is -MaxNegTarget
MaxNegTarget == 2
\* how many iterations past Len(bytes) the model follows the segment loop
MaxOverrun == 2
\* largest explicit `words` argument in the call sequences of SeqSpec
SeqMaxWords == 2

(***************************************************************************)
(* JavaScript values.                                                      *)
(***************************************************************************)
\* parseInt's not-a-number result (every parsed byte is >= 0, so -1 is free)
NaN == -1
\* the value of indexing an array outside its elements
Undefined == "<undefined>"

ErrWordlist == "Wordlist must have exactly 256 items"
ErrFewerBytes == "Fewer input bytes than requested output"
\* the engine's TypeError (a method called on null or undefined, or reduce
\* of an empty array with no initial value)
TypeError == "TypeError"

DEFAULT_WORDLIST == <<
    "ack", "alabama", "alanine", "alaska", "alpha", "angel", "apart",
    "april", "arizona", "arkansas", "artist", "asparagus", "aspen", "august",
    "autumn", "avocado", "bacon", "bakerloo", "batman", "beer", "berlin",
    "beryllium", "black", "blossom", "blue", "bluebird", "bravo", "bulldog",
    "burger", "butter", "california", "carbon", "cardinal", "carolina",
    "carpet", "cat", "ceiling", "charlie", "chicken", "coffee", "cola",
    "cold", "colorado", "comet", "connecticut", "crazy", "cup", "dakota",
    "december", "delaware", "delta", "diet", "don", "double", "early",
    "earth", "east", "echo", "edward", "eight", "eighteen", "eleven", "emma",
    "enemy", "equal", "failed", "fanta", "fifteen", "fillet", "finch",
    "fish", "five", "fix", "floor", "florida", "football", "four",
    "fourteen", "foxtrot", "freddie", "friend", "fruit", "gee", "georgia",
    "glucose", "golf", "green", "grey", "hamper", "happy", "harry", "hawaii",
    "helium", "high", "hot", "hotel", "hydrogen", "idaho", "illinois",
    "india", "indigo", "ink", "iowa", "island", "item", "jersey", "jig",
    "johnny", "juliet", "july", "jupiter", "kansas", "kentucky", "kilo",
    "king", "kitten", "lactose", "lake", "lamp", "lemon", "leopard", "lima",
    "lion", "lithium", "london", "louisiana", "low", "magazine", "magnesium",
    "maine", "mango", "march", "mars", "maryland", "massachusetts", "may",
    "mexico", "michigan", "mike", "minnesota", "mirror", "mississippi",
    "missouri", "mobile", "mockingbird", "monkey", "montana", "moon",
    "mountain", "muppet", "music", "nebraska", "neptune", "network",
    "nevada", "nine", "nineteen", "nitrogen", "north", "november", "nuts",
    "october", "ohio", "oklahoma", "one", "orange", "oranges", "oregon",
    "oscar", "oven", "oxygen", "papa", "paris", "pasta", "pennsylvania",
    "pip", "pizza", "pluto", "potato", "princess", "purple", "quebec",
    "queen", "quiet", "red", "river", "robert", "robin", "romeo", "rugby",
    "sad", "salami", "saturn", "september", "seven", "seventeen", "shade",
    "sierra", "single", "sink", "six", "sixteen", "skylark", "snake",
    "social", "sodium", "solar", "south", "spaghetti", "speaker", "spring",
    "stairway", "steak", "stream", "summer", "sweet", "table", "tango",
    "ten", "tennessee", "tennis", "texas", "thirteen", "three", "timing",
    "triple", "twelve", "twenty", "two", "uncle", "undress", "uniform",
    "uranus", "utah", "vegan", "venus", "vermont", "victor", "video",
    "violet", "virginia", "washington", "west", "whiskey", "white",
    "william", "winner", "winter", "wisconsin", "wolfram", "wyoming", "xray",
    "yankee", "yellow", "zebra", "zulu" >>

\* a custom wordlist of 256 entries, with duplicates
DuplicateWordlist == [k \in 1..256 |-> IF k % 2 = 0 THEN "tick" ELSE "tock"]
\* a wordlist one entry short, and one entry too long
ShortWordlist == SubSeq(DEFAULT_WORDLIST, 1, 255)
LongWordlist == Append(DEFAULT_WORDLIST, "extra")

(***************************************************************************)
(* The uuid package: uuidv4() and uuidv1() each return some 36-character   *)
(* uuid string; the model draws it from these.                             *)
(***************************************************************************)
\* "110ec58a-a0f2-4ac4-8393-c866d813b8d1"
UUID_V4_A ==
    <<"1", "1", "0", "e", "c", "5", "8", "a", "-", "a", "0", "f", "2", "-",
    "4", "a", "c", "4", "-", "8", "3", "9", "3", "-", "c", "8", "6", "6",
    "d", "8", "1", "3", "b", "8", "d", "1">>
\* "f47ac10b-58cc-4372-a567-0e02b2c3d479"
UUID_V4_B ==
    <<"f", "4", "7", "a", "c", "1", "0", "b", "-", "5", "8", "c", "c", "-",
    "4", "3", "7", "2", "-", "a", "5", "6", "7", "-", "0", "e", "0", "2",
    "b", "2", "c", "3", "d", "4", "7", "9">>
\* "6c84fb90-12c4-11e1-840d-7b25c5ee775a"
UUID_V1_A ==
    <<"6", "c", "8", "4", "f", "b", "9", "0", "-", "1", "2", "c", "4", "-",
    "1", "1", "e", "1", "-", "8", "4", "0", "d", "-", "7", "b", "2", "5",
    "c", "5", "e", "e", "7", "7", "5", "a">>
uuidv4 == {UUID_V4_A, UUID_V4_B}
uuidv1 == {UUID_V1_A}

(***************************************************************************)
(* Pure helpers, as the code and the language compute them.                *)
(***************************************************************************)
\* a default parameter: an omitted argument is <<>>, a given one is <<v>>
Default(arg, dflt) == IF arg = <<>> THEN dflt ELSE arg[1]

HexDigits ==
    <<"0", "1", "2", "3", "4", "5", "6", "7", "8", "9",
      "a", "b", "c", "d", "e", "f">>
UpperHexDigits == <<"A", "B", "C", "D", "E", "F">>
IsHexChar(c) ==
    \/ \E k \in 1..16 : HexDigits[k] = c
    \/ \E k \in 1..6 : UpperHexDigits[k] = c
\* the value of one hexadecimal digit, either case
HexVal(c) ==
    IF \E k \in 1..16 : HexDigits[k] = c
    THEN (CHOOSE k \in 1..16 : HexDigits[k] = c) - 1
    ELSE (CHOOSE k \in 1..6 : UpperHexDigits[k] = c) + 9

\* parseInt(x, 16) of a string of one or two characters: the longest prefix
\* of hex digits is the number; no such prefix is NaN
parseInt16(x) ==
    IF ~IsHexChar(x[1]) THEN NaN
    ELSE IF Len(x) = 1 \/ ~IsHexChar(x[2]) THEN HexVal(x[1])
    ELSE 16 * HexVal(x[1]) + HexVal(x[2])

\* hexdigest.match(/(..?)/g) of a non-empty string: two characters at a
\* time from the left, the last match one character when the length is odd
MatchPairs(s) ==
    [k \in 1..((Len(s) + 1) \div 2) |->
        SubSeq(s, 2 * k - 1, IF 2 * k > Len(s) THEN Len(s) ELSE 2 * k)]

\* pairs.map((x) => parseInt(x, 16))
ParseBytes(hexdigest) ==
    LET pairs == MatchPairs(hexdigest)
    IN  [k \in 1..Len(pairs) |-> parseInt16(pairs[k])]

\* uuid.replace(new RegExp("-", 'g'), "")
StripDashes(u) == SelectSeq(u, LAMBDA c : c # "-")

\* the operand conversion of ^: NaN becomes 0
ToInt32(x) == IF x = NaN THEN 0 ELSE x
\* the bitwise exclusive or of two non-negative integers, from bit k up
RECURSIVE XorNat(_, _, _)
XorNat(a, b, k) ==
    IF 2 ^ k > a /\ 2 ^ k > b THEN 0
    ELSE (2 ^ k) * (((a \div (2 ^ k)) + (b \div (2 ^ k))) % 2)
         + XorNat(a, b, k + 1)
\* mutant of BitXor: | written for ^
RECURSIVE OrNat(_, _, _)
OrNat(a, b, k) ==
    IF 2 ^ k > a /\ 2 ^ k > b THEN 0
    ELSE (2 ^ k) * (IF ((a \div (2 ^ k)) % 2) + ((b \div (2 ^ k)) % 2) > 0
                    THEN 1 ELSE 0)
         + OrNat(a, b, k + 1)
BitXorAsOr(acc, curr) ==
    CHOOSE r \in {OrNat(ToInt32(a), ToInt32(b), 0) :
                     a \in {acc}, b \in {curr}} : TRUE
\* mutant of BitXor: + written for ^
BitXorAsPlus(acc, curr) == ToInt32(acc) + ToInt32(curr)

\* acc ^ curr (each operand is evaluated once)
BitXor(acc, curr) ==
    CHOOSE r \in {XorNat(ToInt32(a), ToInt32(b), 0) :
                     a \in {acc}, b \in {curr}} : TRUE

\* x.reduce((acc, curr) => acc ^ curr) of a non-empty array: the first
\* element is the initial accumulator, and is the result when it is alone
RECURSIVE ReduceFrom(_, _, _)
ReduceFrom(x, acc, k) ==
    IF k > Len(x) THEN acc ELSE ReduceFrom(x, BitXor(acc, x[k]), k + 1)
ReduceXor(x) == ReduceFrom(x, x[1], 2)

\* length/target>>0: the quotient truncated toward zero; a division by
\* zero (Infinity or NaN) becomes 0
Abs(n) == IF n < 0 THEN -n ELSE n
\* mutant of SegSize: Math.floor(length/target), which rounds a negative
\* quotient away from zero
SegSizeFloor(length, target) ==
    IF target = 0 THEN 0
    ELSE IF (length < 0) # (target < 0)
         THEN -((Abs(length) + Abs(target) - 1) \div Abs(target))
         ELSE Abs(length) \div Abs(target)
SegSize(length, target) ==
    IF target = 0 THEN 0
    ELSE IF (length < 0) # (target < 0)
         THEN -(Abs(length) \div Abs(target))
         ELSE Abs(length) \div Abs(target)

\* Array.prototype.slice(start, end): a negative index counts from the end,
\* both are clamped to the array
SliceIndex(len, k) ==
    IF k < 0 THEN (IF len + k < 0 THEN 0 ELSE len + k)
    ELSE (IF k > len THEN len ELSE k)
Slice(arr, start, end) ==
    SubSeq(arr, SliceIndex(Len(arr), start) + 1, SliceIndex(Len(arr), end))

\* mutant of LoopBound: i <= seg_size*target, one iteration too many
LoopBoundInclusive(segSize, tgt) == segSize * tgt + 1

\* the loop's bound: i < seg_size*target
LoopBound(segSize, tgt) == segSize * tgt

\* mutant of LeftOver: the left-over bytes are forgotten
LeftOverDropped(arr, tgt, segSize) == <<>>

\* bytes.slice(target*seg_size): the bytes no segment of the loop took
LeftOver(arr, tgt, segSize) == Slice(arr, tgt * segSize, Len(arr))

\* this.wordlist[x]
Lookup(wordlist, x) ==
    IF x \in 0..(Len(wordlist) - 1) THEN wordlist[x + 1] ELSE Undefined

\* Array.prototype.join writes undefined as the empty string
JoinPiece(w) == IF w = Undefined THEN "" ELSE w
\* words.join(separator), as the pieces it concatenates
Join(ws, separator) ==
    [k \in 1..(IF Len(ws) = 0 THEN 0 ELSE 2 * Len(ws) - 1) |->
        IF k % 2 = 1 THEN JoinPiece(ws[(k + 1) \div 2]) ELSE separator]

\* mutant of WordlistRejected: wordlist.length < 256
WordlistRejectedIfShort(wordlist) == Len(wordlist) < 256

\* the constructor's check of its argument
WordlistRejected(wordlist) == Len(wordlist) # 256

(***************************************************************************)
(* The calls the model makes.                                              *)
(***************************************************************************)
\* characters of the digests handed to humanize ("g" is not hexadecimal)
HexChars == {"a", "F", "g"}
\* byte values of the lists handed to _compress directly
ByteSamples == {1, 170, 255}

SeqsUpTo(S, n) == UNION {[1..k -> S] : k \in 0..n}
WordOpts(maxWords) == {<<>>} \cup {<<n>> : n \in (-1)..maxWords}
SepOpts == {<<>>, <<"_">>}
VersionOpts == {<<>>, <<4>>, <<1>>}
WordlistOpts ==
    {<<>>, <<DuplicateWordlist>>, <<ShortWordlist>>, <<LongWordlist>>}

\* one call: the method and its arguments (those of the other methods are
\* left empty); an optional argument is <<>> when omitted
Call(op, wl, hd, w, s, v, b, t) ==
    [op |-> op, wordlist |-> wl, hexdigest |-> hd, words |-> w,
     separator |-> s, version |-> v, bytes |-> b, target |-> t]
NoCall == Call("none", <<>>, <<>>, <<>>, <<>>, <<>>, <<>>, 0)

CtorCalls ==
    {Call("constructor", wl, <<>>, <<>>, <<>>, <<>>, <<>>, 0) :
        wl \in WordlistOpts}
HumanizeCalls(digests, maxWords) ==
    {Call("humanize", <<>>, d, w, s, <<>>, <<>>, 0) :
        d \in digests, w \in WordOpts(maxWords), s \in SepOpts}
UuidCalls(wordOpts) ==
    {Call("uuid", <<>>, <<>>, w, s, v, <<>>, 0) :
        w \in wordOpts, s \in SepOpts, v \in VersionOpts}
CompressCalls(byteLists, targets) ==
    {Call("_compress", <<>>, <<>>, <<>>, <<>>, <<>>, b, t) :
        b \in byteLists, t \in targets}

\* the calls of Spec: one call, from a wide range of arguments
Calls ==
    CtorCalls
    \cup HumanizeCalls(SeqsUpTo(HexChars, MaxDigestLen), MaxWords)
    \cup UuidCalls(WordOpts(MaxWords) \cup {<<16>>, <<17>>})
    \cup CompressCalls(SeqsUpTo(ByteSamples, MaxLen),
                       (-MaxNegTarget)..(MaxLen + MaxTargetOver))

\* the calls of SeqSpec: sequences of calls, from a narrow range
SeqDigests ==
    {<<>>, <<"a">>, <<"a", "F">>, <<"g", "a">>, <<"a", "F", "F", "a">>}
SeqCalls ==
    CtorCalls
    \cup HumanizeCalls(SeqDigests, SeqMaxWords)
    \cup UuidCalls({<<>>})
    \cup CompressCalls({<<1, 170, 255>>}, 0..SeqMaxWords)

\* a HumanHasher instance, and the absence of one
NoInstance == [exists |-> FALSE, wordlist |-> <<>>]
Instance(wordlist) == [exists |-> TRUE, wordlist |-> wordlist]
Instances == {Instance(DEFAULT_WORDLIST), Instance(DuplicateWordlist)}

(***************************************************************************)
(* State.                                                                  *)
(***************************************************************************)
VARIABLES
    hasher,      \* the HumanHasher instance: this.wordlist
    call,        \* the call in progress, or the last one made
    pc,          \* where the call is: the method entered, a statement of
                 \* _compress ("loop", "tail", "fold"), humanize's last
                 \* line ("map"), or its end ("returned", "threw")
    hexdigest,   \* humanize: hexdigest
    bytes,       \* humanize: bytes; _compress: bytes
    target,      \* _compress: target
    seg_size,    \* _compress: seg_size
    i,           \* _compress: the loop's i
    segments,    \* _compress: segments
    checksums,   \* _compress: checksums; humanize: compressed
    phrase,      \* humanize: the returned string, as join's pieces
    error,       \* the message of the error thrown
    constructedWith, \* history: the wordlist the instance was built from
    remembered   \* history: one earlier humanize call and its outcome

vars ==
    <<hasher, call, pc, hexdigest, bytes, target, seg_size, i, segments,
      checksums, phrase, error, constructedWith, remembered>>

NoMemory ==
    [set |-> FALSE, constructedWith |-> <<>>, call |-> NoCall,
     pc |-> "idle", error |-> "", phrase |-> <<>>, between |-> FALSE]

Done == pc \in {"returned", "threw"}

\* no call has been made yet; an instance may exist already
Init ==
    /\ hasher \in {NoInstance} \cup Instances
    /\ call = NoCall
    /\ pc = "idle"
    /\ hexdigest = <<>>
    /\ bytes = <<>>
    /\ target = 0
    /\ seg_size = 0
    /\ i = 0
    /\ segments = <<>>
    /\ checksums = <<>>
    /\ phrase = <<>>
    /\ error = ""
    /\ constructedWith = hasher.wordlist
    /\ remembered = NoMemory

\* a call begins when none is in progress: its arguments are bound and its
\* locals are fresh; a method needs an instance to be called on
Begin(c) ==
    /\ pc \in {"idle", "returned", "threw"}
    /\ c.op = "constructor" \/ hasher.exists
    /\ call' = c
    /\ pc' = c.op
    /\ hexdigest' = c.hexdigest
    /\ bytes' = c.bytes
    /\ target' = c.target
    /\ seg_size' = 0
    /\ i' = 0
    /\ segments' = <<>>
    /\ checksums' = <<>>
    /\ phrase' = <<>>
    /\ error' = ""
    /\ remembered' =
        IF remembered.set /\ c # remembered.call
        THEN [remembered EXCEPT !.between = TRUE]
        ELSE remembered
    /\ UNCHANGED <<hasher, constructedWith>>

\* the first call: the constructor when there is no instance yet
Start(c) ==
    /\ pc = "idle"
    /\ (c.op = "constructor") = ~hasher.exists
    /\ Begin(c)

(***************************************************************************)
(* constructor(wordlist = DEFAULT_WORDLIST)                                *)
(***************************************************************************)
Construct ==
    /\ pc = "constructor"
    /\ LET wordlist == Default(call.wordlist, DEFAULT_WORDLIST)
       IN  IF WordlistRejected(wordlist)
           THEN /\ pc' = "threw"
                /\ error' = ErrWordlist
                /\ UNCHANGED <<hasher, constructedWith>>
           ELSE /\ hasher' = Instance(wordlist)
                /\ constructedWith' = wordlist
                /\ pc' = "returned"
                /\ UNCHANGED error
    /\ UNCHANGED <<call, hexdigest, bytes, target, seg_size, i, segments,
                   checksums, phrase, remembered>>

(***************************************************************************)
(* uuid(words = 4, seperator = '-', version = 4): the generated uuid, its  *)
(* dashes removed, goes to humanize                                        *)
(***************************************************************************)
UuidGenerate ==
    /\ pc = "uuid"
    /\ \E u \in (IF Default(call.version, 4) = 4 THEN uuidv4 ELSE uuidv1) :
        hexdigest' = StripDashes(u)
    /\ pc' = "humanize"
    /\ UNCHANGED <<hasher, call, bytes, target, seg_size, i, segments,
                   checksums, phrase, error, constructedWith,
                   remembered>>

(***************************************************************************)
(* humanize(hexdigest, words = 4, separator = '-'), to its call of         *)
(* _compress.  match returns null for the empty string, and null.map       *)
(* throws.                                                                 *)
(***************************************************************************)
HumanizeParse ==
    /\ pc = "humanize"
    /\ IF hexdigest = <<>>
       THEN /\ pc' = "threw"
            /\ error' = TypeError
            /\ UNCHANGED <<bytes, target>>
       ELSE /\ bytes' = ParseBytes(hexdigest)
            /\ target' = Default(call.words, 4)
            /\ pc' = "_compress"
            /\ UNCHANGED error
    /\ UNCHANGED <<hasher, call, hexdigest, seg_size, i, segments,
                   checksums, phrase, constructedWith, remembered>>

(***************************************************************************)
(* _compress(bytes, target)                                                *)
(***************************************************************************)
\* the guard, seg_size, and the loop's initialisation
CompressEntry ==
    /\ pc = "_compress"
    /\ IF target > Len(bytes)
       THEN /\ pc' = "threw"
            /\ error' = ErrFewerBytes
            /\ UNCHANGED <<seg_size, i, segments>>
       ELSE /\ seg_size' = SegSize(Len(bytes), target)
            /\ segments' = <<>>
            /\ i' = 0
            /\ pc' = "loop"
            /\ UNCHANGED error
    /\ UNCHANGED <<hasher, call, hexdigest, bytes, target, checksums,
                   phrase, constructedWith, remembered>>

\* one iteration of the loop; the model follows a loop for at most
\* Len(bytes) + MaxOverrun iterations
LoopBody ==
    /\ pc = "loop"
    /\ i < LoopBound(seg_size, target)
    /\ Len(segments) < Len(bytes) + MaxOverrun
    /\ segments' = Append(segments, Slice(bytes, i, i + seg_size))
    /\ i' = i + seg_size
    /\ UNCHANGED <<hasher, call, pc, hexdigest, bytes, target, seg_size,
                   checksums, phrase, error, constructedWith,
                   remembered>>

\* the loop's condition is false
LoopExit ==
    /\ pc = "loop"
    /\ ~(i < LoopBound(seg_size, target))
    /\ pc' = "tail"
    /\ UNCHANGED <<hasher, call, hexdigest, bytes, target, seg_size, i,
                   segments, checksums, phrase, error, constructedWith,
                   remembered>>

\* the left-over bytes join the last segment; with no segment at all,
\* segments[-1] is undefined and its concat throws
ConcatLeftOver ==
    /\ pc = "tail"
    /\ IF segments = <<>>
       THEN /\ pc' = "threw"
            /\ error' = TypeError
            /\ UNCHANGED segments
       ELSE /\ segments' =
                [segments EXCEPT
                    ![Len(segments)] = @ \o LeftOver(bytes, target, seg_size)]
            /\ pc' = "fold"
            /\ UNCHANGED error
    /\ UNCHANGED <<hasher, call, hexdigest, bytes, target, seg_size, i,
                   checksums, phrase, constructedWith, remembered>>

\* the checksums, returned to the caller; reduce of an empty segment throws
Fold ==
    /\ pc = "fold"
    /\ IF \E k \in 1..Len(segments) : segments[k] = <<>>
       THEN /\ pc' = "threw"
            /\ error' = TypeError
            /\ UNCHANGED checksums
       ELSE /\ checksums' =
                [k \in 1..Len(segments) |-> ReduceXor(segments[k])]
            /\ pc' = IF call.op = "_compress" THEN "returned" ELSE "map"
            /\ UNCHANGED error
    /\ UNCHANGED <<hasher, call, hexdigest, bytes, target, seg_size, i,
                   segments, phrase, constructedWith, remembered>>

\* mutant of MapJoin: the lookup reverses the instance's wordlist in place
MapJoinReversing ==
    /\ pc = "map"
    /\ phrase' =
        Join([k \in 1..Len(checksums) |->
                 Lookup(hasher.wordlist, checksums[k])],
             Default(call.separator, "-"))
    /\ hasher' =
        Instance([k \in 1..Len(hasher.wordlist) |->
                     hasher.wordlist[Len(hasher.wordlist) + 1 - k]])
    /\ pc' = "returned"
    /\ UNCHANGED <<call, hexdigest, bytes, target, seg_size, i, segments,
                   checksums, error, constructedWith, remembered>>

\* mutant of MapJoin: the lookup takes the last word off the instance's
\* wordlist (this.wordlist.pop())
MapJoinPopping ==
    /\ pc = "map"
    /\ phrase' =
        Join([k \in 1..Len(checksums) |->
                 Lookup(hasher.wordlist, checksums[k])],
             Default(call.separator, "-"))
    /\ hasher' =
        Instance(SubSeq(hasher.wordlist, 1, Len(hasher.wordlist) - 1))
    /\ pc' = "returned"
    /\ UNCHANGED <<call, hexdigest, bytes, target, seg_size, i, segments,
                   checksums, error, constructedWith, remembered>>

(***************************************************************************)
(* humanize's return: each checksum's word, joined (uuid returns this      *)
(* phrase with the uuid)                                                   *)
(***************************************************************************)
MapJoin ==
    /\ pc = "map"
    /\ phrase' =
        Join([k \in 1..Len(checksums) |->
                 Lookup(hasher.wordlist, checksums[k])],
             Default(call.separator, "-"))
    /\ pc' = "returned"
    /\ UNCHANGED <<hasher, call, hexdigest, bytes, target, seg_size, i,
                   segments, checksums, error, constructedWith,
                   remembered>>

\* the steps of a call in progress
Step ==
    \/ Construct
    \/ UuidGenerate
    \/ HumanizeParse
    \/ CompressEntry
    \/ LoopBody
    \/ LoopExit
    \/ ConcatLeftOver
    \/ Fold
    \/ MapJoin

(***************************************************************************)
(* Spec: one call, from a wide range of arguments.                         *)
(***************************************************************************)
FirstCall == pc = "idle" /\ \E c \in Calls : Start(c)

Next ==
    \/ FirstCall
    \/ Step

Spec == Init /\ [][Next]_vars

\* the engine runs a call to its end: a call in progress takes its next
\* step
FairSpec == Spec /\ WF_vars(Step)

(***************************************************************************)
(* SeqSpec: calls one after another on the instance, from a narrow range   *)
(* of arguments.                                                           *)
(***************************************************************************)
\* history: keep a finished humanize call, the wordlist its instance was
\* built from, and its outcome
Remember ==
    /\ Done
    /\ call.op = "humanize"
    /\ ~remembered.set
    /\ remembered' =
        [set |-> TRUE, constructedWith |-> constructedWith, call |-> call,
         pc |-> pc, error |-> error, phrase |-> phrase, between |-> FALSE]
    /\ UNCHANGED <<hasher, call, pc, hexdigest, bytes, target, seg_size, i,
                   segments, checksums, phrase, error, constructedWith>>

NextCall == pc \in {"idle", "returned", "threw"} /\ \E c \in SeqCalls : Begin(c)

NextSeq ==
    \/ NextCall
    \/ Remember
    \/ Step

SeqSpec == Init /\ [][NextSeq]_vars

(***************************************************************************)
(* Vocabulary of the properties.                                           *)
(***************************************************************************)
\* every byte is in 0..255
ValidBytes(b) == \A k \in 1..Len(b) : b[k] \in 0..255
\* an even-length string of hexadecimal characters
WellFormed(d) == Len(d) % 2 = 0 /\ \A k \in 1..Len(d) : IsHexChar(d[k])
\* an odd-length string, or one with a character that is not hexadecimal
Malformed(d) == Len(d) % 2 = 1 \/ \E k \in 1..Len(d) : ~IsHexChar(d[k])
\* the number of bytes humanize parses from a digest: one per pair, and one
\* for a last single character
NumBytes(d) == (Len(d) + 1) \div 2
\* the error the specification names InvalidDigest
ErrInvalidDigest == "InvalidDigest"
\* the call is one of _compress within its contract: 1 <= target <= N
InContract == call.op # "constructor" /\ target \in 1..Len(bytes)
\* the call runs humanize (directly, or from uuid)
Humanizing == call.op \in {"humanize", "uuid"}

\* bit k of a byte
BitAt(x, k) == (x \div (2 ^ k)) % 2
\* the XOR of a list of bytes, bit by bit: bit k is set when an odd number
\* of the bytes have it set
RECURSIVE ParityXorFrom(_, _)
ParityXorFrom(b, k) ==
    IF k > 7 THEN 0
    ELSE (2 ^ k) * (Cardinality({j \in 1..Len(b) : BitAt(b[j], k) = 1}) % 2)
         + ParityXorFrom(b, k + 1)
ParityXor(b) == ParityXorFrom(b, 0)

\* segment k of N bytes cut into T: the first and last index (from 1)
SegFirst(N, T, k) == (k - 1) * (N \div T) + 1
SegLast(N, T, k) == IF k = T THEN N ELSE k * (N \div T)

RECURSIVE Flatten(_)
Flatten(ss) == IF ss = <<>> THEN <<>> ELSE Head(ss) \o Flatten(Tail(ss))

(***************************************************************************)
(* C1.  For N >= 1 bytes in 0..255 and 1 <= target <= N, _compress returns *)
(* exactly `target` checksum bytes; so humanize of a well-formed digest of *)
(* N bytes returns exactly `words` words with the separator between them.  *)
(***************************************************************************)
C1_ExactlyTargetWords ==
    /\ (Done /\ InContract /\ ValidBytes(bytes))
        => (pc = "returned" /\ Len(checksums) = target)
    /\ (Done /\ Humanizing /\ WellFormed(hexdigest)
             /\ Default(call.words, 4) \in 1..(Len(hexdigest) \div 2))
        => /\ pc = "returned"
           /\ Len(phrase) = 2 * Default(call.words, 4) - 1
           /\ \A k \in 1..Len(phrase) :
                IF k % 2 = 0
                THEN phrase[k] = Default(call.separator, "-")
                ELSE \E j \in 1..256 : phrase[k] = hasher.wordlist[j]

\* humanize("aFFa", 2, "_") has returned its two words
C1_Witness ==
    /\ call.op = "humanize"
    /\ pc = "returned"
    /\ hexdigest = <<"a", "F", "F", "a">>
    /\ call.words = <<2>>
    /\ call.separator = <<"_">>
    /\ Len(phrase) = 3

(***************************************************************************)
(* C2.  With s = floor(N/T), checksum i is the XOR of bytes i*s ..         *)
(* (i+1)*s - 1 for i < T-1, and the last checksum is the XOR of bytes      *)
(* (T-1)*s .. N-1; nothing but the segment's bytes enters the fold.        *)
(***************************************************************************)
C2_ChecksumIsXorOfSegment ==
    (pc \in {"map", "returned"} /\ InContract /\ ValidBytes(bytes))
        => /\ Len(checksums) = target
           /\ \A k \in 1..target :
                checksums[k] =
                    ParityXor(SubSeq(bytes,
                                     SegFirst(Len(bytes), target, k),
                                     SegLast(Len(bytes), target, k)))

\* _compress([1, 170, 255, 1, 255], 2) has returned [171, 1]
C2_Witness ==
    /\ call.op = "_compress"
    /\ pc = "returned"
    /\ bytes = <<1, 170, 255, 1, 255>>
    /\ target = 2
    /\ checksums = <<171, 1>>

(***************************************************************************)
(* C3.  For 1 <= T <= N the segments are T non-empty, contiguous slices of *)
(* the bytes, in order and without overlap, whose concatenation is the     *)
(* byte list: the first T-1 of floor(N/T) bytes, the last of               *)
(* floor(N/T) + (N mod T).                                                 *)
(***************************************************************************)
C3_SegmentsPartitionBytes ==
    (pc \in {"fold", "map", "returned"} /\ InContract)
        => /\ Len(segments) = target
           /\ \A k \in 1..target :
                /\ segments[k] # <<>>
                /\ Len(segments[k]) =
                    IF k < target
                    THEN Len(bytes) \div target
                    ELSE (Len(bytes) \div target) + (Len(bytes) % target)
                /\ segments[k] =
                    SubSeq(bytes, SegFirst(Len(bytes), target, k),
                           SegLast(Len(bytes), target, k))
           /\ Flatten(segments) = bytes

\* five bytes cut into three segments of sizes 1, 1, 3
C3_Witness ==
    /\ pc = "fold"
    /\ Len(bytes) = 5
    /\ target = 3
    /\ Len(segments) = 3
    /\ Len(segments[3]) = 3

(***************************************************************************)
(* C4.  With target > N, _compress throws 'Fewer input bytes than          *)
(* requested output' before it builds a segment or a checksum; humanize    *)
(* ends with that same error whenever `words` exceeds the number of bytes  *)
(* parsed from the digest, and the instance is as it was.                  *)
(***************************************************************************)
C4_InsufficientInputThrown ==
    (Done /\ \/ call.op = "_compress" /\ call.target > Len(call.bytes)
             \/ call.op = "humanize"
                /\ Default(call.words, 4) > NumBytes(call.hexdigest))
        => /\ pc = "threw"
           /\ error = ErrFewerBytes
           /\ segments = <<>>
           /\ checksums = <<>>
           /\ phrase = <<>>
           /\ hasher.wordlist = constructedWith

\* the same, for every call but humanize of the empty digest
InsufficientInputOfNonEmptyDigest ==
    (Done /\ \/ pc = "threw" /\ error = ErrFewerBytes
             \/ call.op = "_compress" /\ call.target > Len(call.bytes)
             \/ call.op = "humanize" /\ call.hexdigest # <<>>
                /\ Default(call.words, 4) > NumBytes(call.hexdigest))
        => /\ pc = "threw"
           /\ error = ErrFewerBytes
           /\ target > Len(bytes)
           /\ segments = <<>>
           /\ checksums = <<>>
           /\ phrase = <<>>
           /\ hasher.wordlist = constructedWith

(***************************************************************************)
(* C5.  The constructor throws 'Wordlist must have exactly 256 items' and  *)
(* yields no instance when the wordlist has any other length (255, 257);   *)
(* with 256 entries, duplicates or not, it succeeds and the instance holds *)
(* that wordlist.                                                          *)
(***************************************************************************)
C5_ConstructorChecksLength ==
    (Done /\ call.op = "constructor")
        => LET wordlist == Default(call.wordlist, DEFAULT_WORDLIST)
           IN  IF Len(wordlist) = 256
               THEN /\ pc = "returned"
                    /\ hasher.exists
                    /\ hasher.wordlist = wordlist
               ELSE /\ pc = "threw"
                    /\ error = ErrWordlist
                    /\ hasher = NoInstance

\* new HumanHasher(<256 words with duplicates>) has succeeded
C5_Witness ==
    /\ call.op = "constructor"
    /\ call.wordlist = <<DuplicateWordlist>>
    /\ pc = "returned"
    /\ hasher.wordlist = DuplicateWordlist

(***************************************************************************)
(* C6.  humanize of a malformed digest (odd length, or a character that is *)
(* not hexadecimal) fails with InvalidDigest and returns no phrase.        *)
(***************************************************************************)
C6_MalformedDigestRejected ==
    (Done /\ call.op = "humanize" /\ Malformed(call.hexdigest))
        => (pc = "threw" /\ error = ErrInvalidDigest /\ phrase = <<>>)

(***************************************************************************)
(* C7.  humanize is deterministic: two calls with the same digest, words   *)
(* and separator, on instances built from the same wordlist, end the same  *)
(* way (the same phrase, or the same error) whatever was called before or  *)
(* in between.                                                             *)
(***************************************************************************)
C7_HumanizeDeterministic ==
    (Done /\ call.op = "humanize" /\ remembered.set
          /\ call = remembered.call
          /\ constructedWith = remembered.constructedWith)
        => /\ pc = remembered.pc
           /\ error = remembered.error
           /\ phrase = remembered.phrase

\* the remembered call has been made again and has returned, after other
\* calls in between
C7_Witness ==
    /\ Done
    /\ call.op = "humanize"
    /\ remembered.set
    /\ remembered.between
    /\ call = remembered.call
    /\ constructedWith = remembered.constructedWith
    /\ pc = "returned"
    /\ Len(phrase) = 3

(***************************************************************************)
(* C8.  Once constructed, the instance's wordlist never changes, whatever  *)
(* humanize, uuid and _compress calls are made and however they end: it    *)
(* has 256 entries, those it was constructed with, in the same order.      *)
(***************************************************************************)
C8_WordlistImmutable ==
    hasher.exists
        => /\ Len(hasher.wordlist) = 256
           /\ hasher.wordlist = constructedWith

\* a uuid call has returned on an instance that served other calls before,
\* one of which threw
C8_Witness ==
    /\ hasher.exists
    /\ call.op = "uuid"
    /\ pc = "returned"
    /\ remembered.set
    /\ remembered.pc = "threw"
    /\ remembered.between

LoopDiverges == target \in (-Len(bytes))..(-1)

LoopConditionStillTrue ==
    (pc = "loop" /\ LoopDiverges) => i < LoopBound(seg_size, target)

(***************************************************************************)
(* C10.  For bytes in 0..255 and 1 <= target <= N every checksum is an     *)
(* integer in 0..255, so every word of humanize's phrase is the            *)
(* wordlist's entry at that index: no lookup is out of range.              *)
(***************************************************************************)
C10_ChecksumsIndexWordlist ==
    (pc \in {"map", "returned"} /\ InContract /\ ValidBytes(bytes))
        => /\ \A k \in 1..Len(checksums) : checksums[k] \in 0..255
           /\ (pc = "returned" /\ Humanizing)
                => /\ Len(phrase) = 2 * Len(checksums) - 1
                   /\ \A k \in 1..Len(checksums) :
                        /\ Lookup(hasher.wordlist, checksums[k]) # Undefined
                        /\ phrase[2 * k - 1] =
                            hasher.wordlist[checksums[k] + 1]

\* humanize("FFaF", 2) on the default wordlist has returned zulu-pip
C10_Witness ==
    /\ call.op = "humanize"
    /\ pc = "returned"
    /\ checksums = <<255, 175>>
    /\ phrase = <<"zulu", "-", "pip">>

=============================================================================
